---- MODULE Spec2Model ----
(***************************************************************************)
(* Model of the response decoding pipeline of src/translator.py            *)
(* (class Translator) and of the rate limiter of src/api_client.py         *)
(* (class RateLimiter).  A Python str is a sequence of one-character       *)
(* strings; the bullet character U+2022 and the backtick U+0060, which a   *)
(* TLA+ string cannot hold, are the tokens Bullet and Backtick; Python's   *)
(* None is the value None.  Positions are 1-based: position i of s is      *)
(* s[i], and Len(s)+1 is the end of the text.                              *)
(***************************************************************************)
EXTENDS Integers, Sequences, FiniteSets, TLC

VARIABLES table, reverse_table, extended_reverse, character_names, debug,
          text, op, result, method, calls, limiter, client

vars == <<table, reverse_table, extended_reverse, character_names, debug,
          text, op, result, method, calls, limiter, client>>

fields == <<table, reverse_table, extended_reverse, character_names>>

-----------------------------------------------------------------------------
(* Characters *)

Bullet == "U+2022"

Backtick == "U+0060"

None == <<"None">>

LowerLetters ==
  <<"a","b","c","d","e","f","g","h","i","j","k","l","m",
    "n","o","p","q","r","s","t","u","v","w","x","y","z">>

UpperLetters ==
  <<"A","B","C","D","E","F","G","H","I","J","K","L","M",
    "N","O","P","Q","R","S","T","U","V","W","X","Y","Z">>

Digits == {"0","1","2","3","4","5","6","7","8","9"}

Whitespace == {" ", "\n", "\t", "\r", "\f"}

Punctuation ==
  {":", ".", ",", "(", ")", "[", "]", "*", "-", Backtick, "_", "!", "?", "'", Bullet}

Range(f) == {f[i] : i \in DOMAIN f}

Char == Range(LowerLetters) \cup Range(UpperLetters) \cup Digits
          \cup Whitespace \cup Punctuation

IsString(x) == \A i \in DOMAIN x : x[i] \in Char

IsSpace(c) == c \in Whitespace

IsDigit(c) == c \in Digits

IsWord(c) ==
  c \in Range(LowerLetters) \cup Range(UpperLetters) \cup Digits \cup {"_"}

Lower(c) ==
  IF c \in Range(UpperLetters)
    THEN LowerLetters[CHOOSE i \in DOMAIN UpperLetters : UpperLetters[i] = c]
    ELSE c

str_lower(s) == [i \in DOMAIN s |-> Lower(s[i])]

-----------------------------------------------------------------------------
(* Matching primitives of the regular expressions and of str methods *)

\* the literal lit occurs in s at position i
MatchAt(s, i, lit) ==
  /\ i >= 1
  /\ i + Len(lit) - 1 <= Len(s)
  /\ \A k \in 1..Len(lit) : s[i + k - 1] = lit[k]

\* the literal lit occurs in s at position i, letter case ignored (re.IGNORECASE)
MatchAtCI(s, i, lit) ==
  /\ i >= 1
  /\ i + Len(lit) - 1 <= Len(s)
  /\ \A k \in 1..Len(lit) : Lower(s[i + k - 1]) = Lower(lit[k])

\* length of the longest run of \s characters of s that starts at position i
RECURSIVE WsRun(_, _)
WsRun(s, i) ==
  IF i <= Len(s) /\ IsSpace(s[i]) THEN 1 + WsRun(s, i + 1) ELSE 0

\* ^ under re.MULTILINE: the start of the text or just after a newline
LineStart(s, i) == i = 1 \/ (i - 1 <= Len(s) /\ i > 1 /\ s[i - 1] = "\n")

\* $ under re.MULTILINE: the end of the text or just before a newline
LineEnd(s, i) == i = Len(s) + 1 \/ (i <= Len(s) /\ s[i] = "\n")

\* \b at position i: exactly one of s[i-1], s[i] is a \w character
WordBoundary(s, i) ==
  LET before == i > 1 /\ i - 1 <= Len(s) /\ IsWord(s[i - 1])
      after  == i >= 1 /\ i <= Len(s) /\ IsWord(s[i])
  IN  before # after

\* re.sub(pattern, repl, s) for a pattern that never matches the empty string:
\* m[i] is the length of the pattern's match at position i of s, 0 when it
\* does not match there; matches are taken leftmost first and do not overlap.
RECURSIVE re_sub(_, _, _, _)
re_sub(m, repl, s, i) ==
  IF i > Len(s) THEN <<>>
  ELSE IF m[i] > 0 THEN repl \o re_sub(m, repl, s, i + m[i])
  ELSE <<s[i]>> \o re_sub(m, repl, s, i + 1)

\* str.replace(old, new): every non-overlapping occurrence, leftmost first; an
\* empty old matches before every character and at the end of the text
RECURSIVE str_replace_from(_, _, _, _)
str_replace_from(s, old, new, i) ==
  IF old = <<>>
    THEN IF i > Len(s) THEN new
         ELSE new \o <<s[i]>> \o str_replace_from(s, old, new, i + 1)
    ELSE IF i > Len(s) THEN <<>>
         ELSE IF MatchAt(s, i, old)
           THEN new \o str_replace_from(s, old, new, i + Len(old))
           ELSE <<s[i]>> \o str_replace_from(s, old, new, i + 1)

str_replace(s, old, new) == str_replace_from(s, old, new, 1)

\* str.strip()
LeadingWs(s) == WsRun(s, 1)

RECURSIVE TrailingWs(_, _)
TrailingWs(s, i) ==
  IF i >= 1 /\ IsSpace(s[i]) THEN 1 + TrailingWs(s, i - 1) ELSE 0

str_strip(s) ==
  IF LeadingWs(s) = Len(s) THEN <<>>
  ELSE SubSeq(s, LeadingWs(s) + 1, Len(s) - TrailingWs(s, Len(s)))

\* sep.join(parts)
RECURSIVE str_join(_, _)
str_join(sep, parts) ==
  IF parts = <<>> THEN <<>>
  ELSE IF Len(parts) = 1 THEN parts[1]
  ELSE parts[1] \o sep \o str_join(sep, Tail(parts))

\* s[i:j] with 1-based i and exclusive j
Slice(s, i, j) == SubSeq(s, i, j - 1)

-----------------------------------------------------------------------------
(* Translator.__init__ *)

\* the lookup table[c] of a dict given as a sequence of <<key, value>> pairs
HasKey(d, k) == \E i \in DOMAIN d : d[i][1] = k

Lookup(d, k) == d[CHOOSE i \in DOMAIN d : d[i][1] = k][2]

\* {v: k for k, v in table.items()}: a key keeps the place of its first
\* insertion and the value of its last
RECURSIVE DictFromPairs(_, _)
DictFromPairs(pairs, acc) ==
  IF pairs = <<>> THEN acc
  ELSE LET k == pairs[1][1]
           v == pairs[1][2]
       IN  DictFromPairs(Tail(pairs),
             IF HasKey(acc, k)
               THEN [i \in DOMAIN acc |->
                       IF acc[i][1] = k THEN <<k, v>> ELSE acc[i]]
               ELSE Append(acc, <<k, v>>))

reverse_of(tbl) ==
  DictFromPairs([i \in DOMAIN tbl |-> <<tbl[i][2], tbl[i][1]>>], <<>>)

ExtendedReverse ==
  DictFromPairs(
    << <<"0","o">>, <<"O","o">>, <<"1","i">>, <<"I","i">>,
       <<"3","e">>, <<"E","e">>, <<"4","a">>, <<"A","a">>,
       <<"7","t">>, <<"T","t">>, <<"_"," ">>,
       <<"5","s">>, <<"S","s">>, <<"6","g">>, <<"G","g">>,
       <<"8","b">>, <<"B","b">>, <<"9","g">>, <<"G","g">>,
       <<"2","z">>, <<"Z","z">> >>, <<>>)

CharacterNames ==
  << <<"H","O","U","S","E">>, <<"F","O","R","E","M","A","N">>,
     <<"C","A","M","E","R","O","N">>, <<"W","I","L","S","O","N">>,
     <<"C","H","A","S","E">>, <<"C","U","D","D","Y">>,
     <<"T","H","I","R","T","E","E","N">>, <<"T","A","U","B">> >>

\* the object the methods receive as self
Self ==
  [table |-> table, reverse_table |-> reverse_table,
   extended_reverse |-> extended_reverse,
   character_names |-> character_names, debug |-> debug]

-----------------------------------------------------------------------------
(* Translator.to_leetspeak *)

RECURSIVE to_leetspeak_loop(_, _, _)
to_leetspeak_loop(tbl, lowered, i) ==
  IF i > Len(lowered) THEN <<>>
  ELSE (IF HasKey(tbl, lowered[i]) THEN Lookup(tbl, lowered[i])
        ELSE <<lowered[i]>>) \o to_leetspeak_loop(tbl, lowered, i + 1)

\* to_leetspeak without the lower-casing of its argument
to_leetspeak_no_lower(self, s) == to_leetspeak_loop(self.table, s, 1)

to_leetspeak(self, s) == to_leetspeak_loop(self.table, str_lower(s), 1)

-----------------------------------------------------------------------------
(* Translator.from_leetspeak *)

\* first and second pass: for leet, normal in d.items(): result.replace(leet, normal)
\* (the CASE makes TLC evaluate one iteration's result before the next begins)
RECURSIVE replace_pass(_, _)
replace_pass(d, s) ==
  IF d = <<>> THEN s
  ELSE LET r == str_replace(s, <<d[1][1]>>, <<d[1][2]>>)
       IN  CASE Len(r) >= 0 -> replace_pass(Tail(d), r)

\* the first pass, whose keys are the table's values (strings)
RECURSIVE reverse_pass(_, _)
reverse_pass(d, s) ==
  IF d = <<>> THEN s
  ELSE LET r == str_replace(s, d[1][1], <<d[1][2]>>)
       IN  CASE Len(r) >= 0 -> reverse_pass(Tail(d), r)

numeric_fixes ==
  DictFromPairs(
    << <<<<"i","o">>, <<"1","0">>>>,
       <<<<"i","i">>, <<"1","1">>>>,
       <<<<"i","z">>, <<"1","2">>>>,
       <<<<"i","e">>, <<"1","3">>>>,
       <<<<"i","a">>, <<"1","4">>>>,
       <<<<"i","s">>, <<"1","5">>>>,
       <<<<"i","g">>, <<"1","6">>>>,
       <<<<"i","t">>, <<"1","7">>>>,
       <<<<"i","b">>, <<"1","8">>>>,
       <<<<"i","g">>, <<"1","9">>>>,
       <<<<"z","o">>, <<"2","0">>>>,
       <<<<"z","i">>, <<"2","1">>>>,
       <<<<"z","z">>, <<"2","2">>>>,
       <<<<"z","e">>, <<"2","3">>>>,
       <<<<"z","a">>, <<"2","4">>>>,
       <<<<"z","s">>, <<"2","5">>>>,
       <<<<"z","g">>, <<"2","6">>>>,
       <<<<"z","t">>, <<"2","7">>>>,
       <<<<"z","b">>, <<"2","8">>>>,
       <<<<"z","g">>, <<"2","9">>>>,
       <<<<"e","o">>, <<"3","0">>>>,
       <<<<"e","i">>, <<"3","1">>>>,
       <<<<"a","o">>, <<"4","0">>>>,
       <<<<"s","o","o","o">>, <<"5","0","0","0">>>>,
       <<<<"i","o","o","o">>, <<"1","0","0","0">>>> >>, <<>>)

\* the numeric pattern without its word boundaries
numeric_match_anywhere(leet, s, i) ==
  IF MatchAt(s, i, leet) THEN Len(leet) ELSE 0

\* r'\b' + re.escape(leet) + r'\b' at position i: the length matched, else 0
numeric_match(leet, s, i) ==
  IF /\ MatchAt(s, i, leet)
     /\ WordBoundary(s, i)
     /\ WordBoundary(s, i + Len(leet))
    THEN Len(leet) ELSE 0

\* third pass: for leet, normal in numeric_fixes.items(): re.sub(pattern, normal, result)
RECURSIVE numeric_pass(_, _)
numeric_pass(d, s) ==
  IF d = <<>> THEN s
  ELSE LET r == re_sub([i \in DOMAIN s |-> numeric_match(d[1][1], s, i)],
                       d[1][2], s, 1)
       IN  CASE Len(r) >= 0 -> numeric_pass(Tail(d), r)

\* from_leetspeak without its second pass
from_leetspeak_two_passes(self, leetspeak) ==
  IF leetspeak = <<>> THEN <<>>
  ELSE numeric_pass(numeric_fixes,
         reverse_pass(self.reverse_table, leetspeak))

from_leetspeak(self, leetspeak) ==
  IF leetspeak = <<>> THEN <<>>
  ELSE numeric_pass(numeric_fixes,
         replace_pass(self.extended_reverse,
           reverse_pass(self.reverse_table, leetspeak)))

-----------------------------------------------------------------------------
(* Translator.contains_leetspeak *)

contains_leetspeak(s) == \E i \in DOMAIN s : IsDigit(s[i]) \/ s[i] = "_"

-----------------------------------------------------------------------------
(* Translator.extract_leetspeak: the patterns *)

BulletChars == {Bullet, "*", "-"}

\* re.sub(the fence pattern: three backticks, then an optional 'markdown', '', s)
fence_match(s, i) ==
  IF MatchAt(s, i, <<Backtick,Backtick,Backtick>>)
    THEN IF MatchAt(s, i + 3, <<"m","a","r","k","d","o","w","n">>) THEN 11 ELSE 3
    ELSE 0

strip_code_fences(s) ==
  re_sub([i \in DOMAIN s |-> fence_match(s, i)], <<>>, s, 1)

\* the names that end a span of dialogue: FOREMAN|CAMERON|WILSON|CHASE|CUDDY
NextSpeakers ==
  { <<"F","O","R","E","M","A","N">>, <<"C","A","M","E","R","O","N">>, <<"W","I","L","S","O","N">>, <<"C","H","A","S","E">>, <<"C","U","D","D","Y">> }

\* (?:FOREMAN|...|CUDDY|$) after \s*, tried from position r
SpeakerOrLineEnd(s, r) ==
  \E k \in 0..WsRun(s, r) :
    \/ \E n \in NextSpeakers : MatchAtCI(s, r + k, n)
    \/ LineEnd(s, r + k)

\* the lookahead (?=(?:^|\n)\s*(?:FOREMAN|...|CUDDY|$)) at position p
house_lookahead(s, p) ==
  \/ LineStart(s, p) /\ SpeakerOrLineEnd(s, p)
  \/ p <= Len(s) /\ s[p] = "\n" /\ SpeakerOrLineEnd(s, p + 1)

\* the first position at or after q where the lookahead holds, 0 when none
RECURSIVE FirstLookahead(_, _)
FirstLookahead(s, q) ==
  IF q > Len(s) + 1 THEN 0
  ELSE IF house_lookahead(s, q) THEN q
  ELSE FirstLookahead(s, q + 1)

\* the position of the first c at or after i, 0 when none
RECURSIVE FirstChar(_, _, _)
FirstChar(s, c, i) ==
  IF i > Len(s) THEN 0
  ELSE IF s[i] = c THEN i
  ELSE FirstChar(s, c, i + 1)

\* (?:\s*:|\.)? at position c: the positions after it, in the order the
\* matcher tries them
label_suffix_ends(s, c) ==
  (IF c + WsRun(s, c) <= Len(s) /\ s[c + WsRun(s, c)] = ":"
     THEN <<c + WsRun(s, c) + 1>> ELSE <<>>)
  \o (IF c <= Len(s) /\ s[c] = "." THEN <<c + 1>> ELSE <<>>)
  \o <<c>>

\* (?:\s*\([^)]*\))? at position d: the positions after it, in order
stage_direction_ends(s, d) ==
  LET open == d + WsRun(s, d)
  IN  (IF open <= Len(s) /\ s[open] = "(" /\ FirstChar(s, ")", open + 1) > 0
         THEN <<FirstChar(s, ")", open + 1) + 1>> ELSE <<>>)
      \o <<d>>

\* greedy \s* at position e: the positions after it, longest first
ws_ends(s, e) == [k \in 1..(WsRun(s, e) + 1) |-> e + WsRun(s, e) + 1 - k]

\* the positions after the stage direction, for every position ds after the label
RECURSIVE after_stage_direction(_, _)
after_stage_direction(s, ds) ==
  IF ds = <<>> THEN <<>>
  ELSE stage_direction_ends(s, ds[1]) \o after_stage_direction(s, Tail(ds))

\* the positions after the last \s*, for every position es before it
RECURSIVE after_whitespace(_, _)
after_whitespace(s, es) ==
  IF es = <<>> THEN <<>>
  ELSE ws_ends(s, es[1]) \o after_whitespace(s, Tail(es))

\* the positions where group 1 of house_pattern can start for a match that
\* starts at position i, in the order the backtracking matcher tries them
house_group_starts(s, i) ==
  LET b == i + WsRun(s, i)
  IN  IF /\ i <= Len(s)
         /\ LineStart(s, i) \/ s[i] = "\n"
         /\ MatchAtCI(s, b, <<"H","O","U","S","E">>)
        THEN after_whitespace(s,
               after_stage_direction(s, label_suffix_ends(s, b + 5)))
        ELSE <<>>

\* the first candidate from which the lazy group reaches a lookahead, 0 when none
RECURSIVE FirstViable(_, _)
FirstViable(s, qs) ==
  IF qs = <<>> THEN 0
  ELSE IF FirstLookahead(s, qs[1]) > 0 THEN qs[1]
  ELSE FirstViable(s, Tail(qs))

\* house_pattern.finditer(response) from position pos: group 1 of every match
RECURSIVE house_matches(_, _)
house_matches(s, pos) ==
  IF pos > Len(s) THEN <<>>
  ELSE LET q == FirstViable(s, house_group_starts(s, pos))
       IN  IF q = 0 THEN house_matches(s, pos + 1)
           ELSE LET p == FirstLookahead(s, q)
                IN  <<Slice(s, q, p)>> \o house_matches(s, p)

\* the loop over house_matches: the stripped dialogues that pass contains_leetspeak
RECURSIVE house_dialogue(_)
house_dialogue(groups) ==
  IF groups = <<>> THEN <<>>
  ELSE LET dialogue == str_strip(groups[1])
       IN  (IF dialogue # <<>> /\ contains_leetspeak(dialogue)
              THEN <<dialogue>> ELSE <<>>)
           \o house_dialogue(Tail(groups))

\* bullet_pattern.findall(combined_dialogue) is not empty: the pattern
\* (?:^|\n)\s*[...]\s*(.*?)(?=...|\Z) matches wherever its head does, the lazy
\* group always reaching \Z
bullet_matches(s) ==
  \E i \in 1..Len(s) :
    /\ LineStart(s, i) \/ s[i] = "\n"
    /\ i + WsRun(s, i) <= Len(s)
    /\ s[i + WsRun(s, i)] \in BulletChars

-----------------------------------------------------------------------------
(* Translator._extract_full_bullet_content *)

\* r'(?:^|\n)\s*[...]\s+' at position i (no re.MULTILINE: ^ is the start of
\* the text): the position after the match, 0 when it does not match
bullet_marker_end(s, i) ==
  LET b == i + WsRun(s, i)
  IN  IF /\ i <= Len(s)
         /\ i = 1 \/ s[i] = "\n"
         /\ b <= Len(s)
         /\ s[b] \in BulletChars
         /\ WsRun(s, b + 1) >= 1
        THEN b + 1 + WsRun(s, b + 1)
        ELSE 0

\* list(re.finditer(...)): the <<start, end>> of every marker from position pos
RECURSIVE bullet_markers(_, _)
bullet_markers(s, pos) ==
  IF pos > Len(s) THEN <<>>
  ELSE IF bullet_marker_end(s, pos) > 0
    THEN << <<pos, bullet_marker_end(s, pos)>> >>
           \o bullet_markers(s, bullet_marker_end(s, pos))
    ELSE bullet_markers(s, pos + 1)

RECURSIVE bullet_points(_, _, _)
bullet_points(s, markers, i) ==
  IF i > Len(markers) THEN <<>>
  ELSE LET start   == markers[i][2]
           end     == IF i = Len(markers) THEN Len(s) + 1
                      ELSE markers[i + 1][1]
           content == str_strip(Slice(s, start, end))
       IN  (IF content # <<>> THEN <<content>> ELSE <<>>)
           \o bullet_points(s, markers, i + 1)

_extract_full_bullet_content(s) ==
  LET markers == bullet_markers(s, 1)
  IN  IF markers = <<>> THEN None
      ELSE IF bullet_points(s, markers, 1) # <<>>
        THEN str_join(<<"\n","\n">>, bullet_points(s, markers, 1))
        ELSE None

-----------------------------------------------------------------------------
(* Translator.extract_leetspeak: strategies 3 and 4 *)

\* the position of the first run of three backticks at or after i, 0 when none
RECURSIVE FirstFence(_, _)
FirstFence(s, i) ==
  IF i > Len(s) THEN 0
  ELSE IF MatchAt(s, i, <<Backtick,Backtick,Backtick>>) THEN i
  ELSE FirstFence(s, i + 1)

RECURSIVE WordRun(_, _)
WordRun(s, i) ==
  IF i <= Len(s) /\ IsWord(s[i]) THEN 1 + WordRun(s, i + 1) ELSE 0

\* re.findall of fence (?:\w+)?\n?(.*?) fence, re.DOTALL, from position pos
RECURSIVE code_blocks(_, _)
code_blocks(s, pos) ==
  LET open  == FirstFence(s, pos)
      tag   == open + 3 + WordRun(s, open + 3)
      body  == IF tag <= Len(s) /\ s[tag] = "\n" THEN tag + 1 ELSE tag
      close == FirstFence(s, body)
  IN  IF open = 0 \/ close = 0 THEN <<>>
      ELSE <<Slice(s, body, close)>> \o code_blocks(s, close + 3)

RECURSIVE SelectLeet(_)
SelectLeet(parts) ==
  IF parts = <<>> THEN <<>>
  ELSE (IF contains_leetspeak(parts[1]) THEN <<parts[1]>> ELSE <<>>)
       \o SelectLeet(Tail(parts))

\* the position of the last newline among the w characters from position i,
\* 0 when none
RECURSIVE LastNewline(_, _, _)
LastNewline(s, i, w) ==
  IF w = 0 THEN 0
  ELSE IF s[i + w - 1] = "\n" THEN i + w - 1
  ELSE LastNewline(s, i, w - 1)

\* r'\n\s*\n' at position i: the length matched (greedy \s*), 0 when no match
paragraph_break(s, i) ==
  IF i <= Len(s) /\ s[i] = "\n" /\ LastNewline(s, i + 1, WsRun(s, i + 1)) > 0
    THEN LastNewline(s, i + 1, WsRun(s, i + 1)) - i + 1
    ELSE 0

\* re.split(r'\n\s*\n', response): the pieces from position pos, the current
\* piece having started at position from
RECURSIVE re_split_paragraphs(_, _, _)
re_split_paragraphs(s, from, pos) ==
  IF pos > Len(s) THEN <<Slice(s, from, Len(s) + 1)>>
  ELSE IF paragraph_break(s, pos) > 0
    THEN <<Slice(s, from, pos)>>
           \o re_split_paragraphs(s, pos + paragraph_break(s, pos),
                                  pos + paragraph_break(s, pos))
    ELSE re_split_paragraphs(s, from, pos + 1)

-----------------------------------------------------------------------------
(* Translator.extract_leetspeak: the cascade.  A strategy gives None when   *)
(* the code goes on to the next one.                                        *)

\* STRATEGY 1 (lines 130-165): House's dialogue, its bullet points when it has any
house_strategy(response) ==
  LET dialogues == house_dialogue(house_matches(response, 1))
      combined_dialogue == str_join(<<"\n">>, dialogues)
      full_content == _extract_full_bullet_content(combined_dialogue)
  IN  IF dialogues = <<>> THEN None
      ELSE IF bullet_matches(combined_dialogue)
        THEN IF full_content # None /\ full_content # <<>>
               THEN full_content ELSE combined_dialogue
        ELSE combined_dialogue

\* STRATEGY 2 (lines 167-175): bullet points anywhere
bullet_strategy(response) ==
  IF \E i \in DOMAIN response : response[i] \in BulletChars
    THEN LET full_content == _extract_full_bullet_content(response)
         IN  IF full_content # None /\ full_content # <<>>
               THEN full_content ELSE None
    ELSE None

\* STRATEGY 3 (lines 177-190): code blocks that contain leetspeak
code_block_strategy(response) ==
  LET code_content == SelectLeet(code_blocks(response, 1))
  IN  IF code_content # <<>>
        THEN str_join(<<"\n","\n">>, code_content) ELSE None

\* STRATEGY 4 (lines 192-204): paragraphs that contain leetspeak
paragraph_strategy(response) ==
  LET leet_paragraphs == SelectLeet(re_split_paragraphs(response, 1, 1))
  IN  IF leet_paragraphs # <<>>
        THEN str_join(<<"\n","\n">>, leet_paragraphs) ELSE None

\* a strategy 5 that falls off the end of the method
full_response_missing(response) == None

\* STRATEGY 5 (lines 206-210): the full response
full_response_strategy(response) == response

\* the emptiness test made after the fences are stripped
is_empty_after_strip(raw) == Len(str_strip(strip_code_fences(raw))) = 0

\* line 122: not response or len(response.strip()) == 0
is_empty_response(raw) == raw = <<>> \/ Len(str_strip(raw)) = 0

\* a cascade that tries the paragraphs before the bullet points
extract_run_paragraphs_first(raw) ==
  IF is_empty_response(raw)
    THEN [ret |-> <<>>, method |-> "none"]
    ELSE
      LET response  == strip_code_fences(raw)
          house     == house_strategy(response)
          bullets   == bullet_strategy(response)
          blocks    == code_block_strategy(response)
          paragraph == paragraph_strategy(response)
      IN  IF house # None
            THEN [ret |-> house,
                  method |->
                    IF bullet_matches(str_join(<<"\n">>,
                         house_dialogue(house_matches(response, 1))))
                      THEN "bullets_in_house_dialogue" ELSE "house_dialogue"]
          ELSE IF paragraph # None
            THEN [ret |-> paragraph, method |-> "leet_paragraphs"]
          ELSE IF bullets # None
            THEN [ret |-> bullets, method |-> "bullet_points"]
          ELSE IF blocks # None
            THEN [ret |-> blocks, method |-> "code_blocks"]
          ELSE [ret |-> full_response_strategy(response),
                method |-> "full_response"]

\* the value returned, with the value extraction_method holds at the return
extract_run(raw) ==
  IF is_empty_response(raw)
    THEN [ret |-> <<>>, method |-> "none"]
    ELSE
      LET response  == strip_code_fences(raw)
          house     == house_strategy(response)
          bullets   == bullet_strategy(response)
          blocks    == code_block_strategy(response)
          paragraph == paragraph_strategy(response)
      IN  IF house # None
            THEN [ret |-> house,
                  method |->
                    IF bullet_matches(str_join(<<"\n">>,
                         house_dialogue(house_matches(response, 1))))
                      THEN "bullets_in_house_dialogue" ELSE "house_dialogue"]
          ELSE IF bullets # None
            THEN [ret |-> bullets, method |-> "bullet_points"]
          ELSE IF blocks # None
            THEN [ret |-> blocks, method |-> "code_blocks"]
          ELSE IF paragraph # None
            THEN [ret |-> paragraph, method |-> "leet_paragraphs"]
          ELSE [ret |-> full_response_strategy(response),
                method |-> "full_response"]

extract_leetspeak(response) == extract_run(response).ret

-----------------------------------------------------------------------------
(* Translator.normalize_character_names, clean_stage_directions *)

\* r'\b' + [hH][oO]... + r'\b', re.IGNORECASE, at position i
name_match(name, s, i) ==
  IF /\ MatchAtCI(s, i, name)
     /\ WordBoundary(s, i)
     /\ WordBoundary(s, i + Len(name))
    THEN Len(name) ELSE 0

RECURSIVE normalize_names_loop(_, _)
normalize_names_loop(names, s) ==
  IF names = <<>> THEN s
  ELSE LET r == re_sub([i \in DOMAIN s |-> name_match(names[1], s, i)],
                       names[1], s, 1)
       IN  CASE Len(r) >= 0 -> normalize_names_loop(Tail(names), r)

normalize_character_names(self, s) ==
  normalize_names_loop(self.character_names, s)

\* r'\([^)]*\)' and r'\[[^\]]*\]' at position i: opening, anything but the
\* closing character, closing
enclosed_match(open, close, s, i) ==
  IF s[i] = open /\ FirstChar(s, close, i + 1) > 0
    THEN FirstChar(s, close, i + 1) - i + 1 ELSE 0

RECURSIVE NewlineRun(_, _)
NewlineRun(s, i) ==
  IF i <= Len(s) /\ s[i] = "\n" THEN 1 + NewlineRun(s, i + 1) ELSE 0

\* r'\n{3,}' at position i
newlines_match(s, i) == IF NewlineRun(s, i) >= 3 THEN NewlineRun(s, i) ELSE 0

collapse_newlines(s) ==
  re_sub([i \in DOMAIN s |-> newlines_match(s, i)], <<"\n","\n">>, s, 1)

remove_enclosed(open, close, s) ==
  re_sub([i \in DOMAIN s |-> enclosed_match(open, close, s, i)], <<>>, s, 1)

clean_stage_directions(s) ==
  collapse_newlines(remove_enclosed("[", "]", remove_enclosed("(", ")", s)))

-----------------------------------------------------------------------------
(* Translator.process_response *)

\* (?:HOUSE|HoUse|H0use), re.IGNORECASE, at position i
house_label(s, i) ==
  MatchAtCI(s, i, <<"H","O","U","S","E">>) \/ MatchAtCI(s, i, <<"H","0","u","s","e">>)

\* r'(?:HOUSE|HoUse|H0use)\s*\([^)]*\)' at position i (line 268)
house_action_match(s, i) ==
  LET open == i + 5 + WsRun(s, i + 5)
  IN  IF /\ house_label(s, i)
         /\ open <= Len(s)
         /\ s[open] = "("
         /\ FirstChar(s, ")", open + 1) > 0
        THEN FirstChar(s, ")", open + 1) - i + 1 ELSE 0

\* r'^(?:HOUSE|HoUse|H0use)\s*(?::)?\s*', re.MULTILINE, at position i (line 269)
house_prefix_match(s, i) ==
  LET colon == i + 5 + WsRun(s, i + 5)
      after == IF colon <= Len(s) /\ s[colon] = ":" THEN colon + 1 ELSE colon
  IN  IF LineStart(s, i) /\ house_label(s, i)
        THEN after + WsRun(s, after) - i ELSE 0

\* lines 268-272: House's actions, the leading label, the stage directions
pre_decode_clean(extracted) ==
  LET no_actions == re_sub([i \in DOMAIN extracted |->
                              house_action_match(extracted, i)],
                           <<>>, extracted, 1)
      no_prefix  == re_sub([i \in DOMAIN no_actions |->
                              house_prefix_match(no_actions, i)],
                           <<>>, no_actions, 1)
  IN  clean_stage_directions(no_prefix)

\* r'\[SCENE (?:START|END)\]' at position i (line 284)
scene_marker_match(s, i) ==
  IF MatchAt(s, i, <<"[","S","C","E","N","E"," ","S","T","A","R","T","]">>) THEN 13
  ELSE IF MatchAt(s, i, <<"[","S","C","E","N","E"," ","E","N","D","]">>) THEN 11
  ELSE 0

\* lines 280-289: code fence markers, scene markers, newlines, strip
strip_markers(named) ==
  LET no_fence == strip_code_fences(named)
      no_scene == re_sub([i \in DOMAIN no_fence |->
                            scene_marker_match(no_fence, i)],
                         <<>>, no_fence, 1)
  IN  str_strip(collapse_newlines(no_scene))

\* lines 277-289: the cleaning that follows from_leetspeak
post_decode_clean(self, decoded) ==
  strip_markers(normalize_character_names(self, decoded))

process_response(self, response) ==
  LET extracted == extract_leetspeak(response)
      cleaned   == pre_decode_clean(extracted)
      decoded   == from_leetspeak(self, cleaned)
  IN  post_decode_clean(self, decoded)

-----------------------------------------------------------------------------
(* The Translator after __init__, and the inputs of its methods *)

\* the table the comments of __init__ describe: o, i, e, a, t, space
BasicLeet ==
  << <<"o", <<"0">>>>, <<"i", <<"1">>>>, <<"e", <<"3">>>>,
     <<"a", <<"4">>>>, <<"t", <<"7">>>>, <<" ", <<"_">>>> >>

\* tables json.load can give: the basic one, one with a value used twice and
\* a value of two characters, and the empty one
Tables ==
  { BasicLeet,
    << <<"i", <<"1">>>>, <<"l", <<"1">>>>, <<"s", <<"z","z">>>> >>,
    << >> }

\* all the texts made of at most n of the pieces
RECURSIVE Texts(_, _)
Texts(pieces, n) ==
  IF n = 0 THEN {<<>>}
  ELSE Texts(pieces, n - 1)
         \cup {p \o t : p \in pieces, t \in Texts(pieces, n - 1)}

InitTranslator(tbl) ==
  /\ table = tbl
  /\ reverse_table = reverse_of(tbl)
  /\ extended_reverse = ExtendedReverse
  /\ character_names = CharacterNames
  /\ debug = FALSE

\* a method called on text: op names the method that returned last
Call(name, value) ==
  /\ op' = name
  /\ result' = value
  /\ UNCHANGED <<limiter, client, table, reverse_table, extended_reverse, character_names,
                 debug, text, calls>>

-----------------------------------------------------------------------------
(* The codec: to_leetspeak, from_leetspeak, and from_leetspeak of the       *)
(* output of to_leetspeak                                                   *)

MaxCodecLen == 3

CodecChars == {"x", "z", "B", "I", "i", "o", "s", "4", " "}

CodecInputs == Texts({<<c>> : c \in CodecChars}, MaxCodecLen)

InitCodec ==
  /\ \E tbl \in Tables : InitTranslator(tbl)
  /\ text \in CodecInputs
  /\ op = "init"
  /\ result = <<>>
  /\ method = "none"
  /\ calls = <<>>
  /\ limiter = None
  /\ client = None

ToLeetspeak ==
  /\ op = "init"
  /\ Call("to_leetspeak", to_leetspeak(Self, text))
  /\ UNCHANGED method

FromLeetspeak ==
  /\ op = "init"
  /\ Call("from_leetspeak", from_leetspeak(Self, text))
  /\ UNCHANGED method

RoundTrip ==
  /\ op = "to_leetspeak"
  /\ Call("round_trip", from_leetspeak(Self, result))
  /\ UNCHANGED method

NextCodec == ToLeetspeak \/ FromLeetspeak \/ RoundTrip

SpecCodec == InitCodec /\ [][NextCodec]_vars

-----------------------------------------------------------------------------
(* The extractor and the pipeline: extract_leetspeak, process_response      *)

MaxFragments == 4

Fence == <<Backtick, Backtick, Backtick>>

ExtractFragments ==
  { <<"H","O","U","S","E",":">>, <<"F","O","R","E","M","A","N",":">>, <<"h","3">>, <<"x">>, <<"\n">>,
    <<"*"," ">>, Fence }

\* "HOUSE: The answer is 4pple and 0range. [SCENE END]"
PipelineScenario ==
  <<"H","O","U","S","E",":"," ","T","h","e"," ","a","n","s","w","e","r"," ","i","s"," ","4","p","p","l","e"," ","a","n","d"," ","0","r","a","n","g","e","."," ","[","S","C","E","N","E"," ","E","N","D","]">>

\* "HOUSE: * f00 \n* b4r"
BulletScenario ==
  <<"H","O","U","S","E",":"," ","*"," ","f","0","0"," ","\n","*"," ","b","4","r">>

ExtractInputs ==
  Texts(ExtractFragments, MaxFragments)
    \cup {PipelineScenario, BulletScenario, BulletScenario \o <<"\n">>}

InitExtract ==
  /\ InitTranslator(BasicLeet)
  /\ text \in ExtractInputs
  /\ op = "init"
  /\ result = <<>>
  /\ method = "none"
  /\ calls = <<>>
  /\ limiter = None
  /\ client = None

ExtractLeetspeak ==
  /\ op = "init"
  /\ LET run == extract_run(text)
     IN  /\ Call("extract_leetspeak", run.ret)
         /\ method' = run.method

ProcessResponse ==
  /\ op = "init"
  /\ Call("process_response", process_response(Self, text))
  /\ UNCHANGED method

NextExtract == ExtractLeetspeak \/ ProcessResponse

SpecExtract == InitExtract /\ [][NextExtract]_vars

-----------------------------------------------------------------------------
(* The post-decode cleaning phase of process_response                       *)

MaxCleanFragments == 3

CleanFragments ==
  { <<Backtick>>, <<Backtick, Backtick>>, <<"[","S","C","E","N","E"," ","E","N","D","]">>,
    <<"h","o","u","s","e">>, <<"x">>, <<"\n">>, <<" ">> }

CleanInputs == Texts(CleanFragments, MaxCleanFragments)

InitClean ==
  /\ InitTranslator(BasicLeet)
  /\ text \in CleanInputs
  /\ op = "init"
  /\ result = <<>>
  /\ method = "none"
  /\ calls = <<>>
  /\ limiter = None
  /\ client = None

PostDecodeClean ==
  /\ op = "init"
  /\ Call("post_decode_clean", post_decode_clean(Self, text))
  /\ UNCHANGED method

NextClean == PostDecodeClean

SpecClean == InitClean /\ [][NextClean]_vars

-----------------------------------------------------------------------------
(* The bullet helper: _extract_full_bullet_content on its own               *)

MaxBulletFragments == 4

BulletFragments ==
  { <<"*"," ">>, <<"-"," ">>, <<"*">>, <<"b">>, <<"\n">>, <<" ">> }

BulletInputs == Texts(BulletFragments, MaxBulletFragments)

InitBullets ==
  /\ InitTranslator(BasicLeet)
  /\ text \in BulletInputs
  /\ op = "init"
  /\ result = <<>>
  /\ method = "none"
  /\ calls = <<>>
  /\ limiter = None
  /\ client = None

ExtractFullBulletContent ==
  /\ op = "init"
  /\ Call("_extract_full_bullet_content", _extract_full_bullet_content(text))
  /\ UNCHANGED method

NextBullets == ExtractFullBulletContent

SpecBullets == InitBullets /\ [][NextBullets]_vars

-----------------------------------------------------------------------------
(* Concurrent calls on one Translator.  A call keeps its argument and its   *)
(* working string in locals of its own; a step is a stretch of the method   *)
(* between two reads of the Translator's fields, which it reads when it     *)
(* runs.  set_debug may run between any two steps.                          *)

Threads == {"t1", "t2"}

Methods ==
  {"to_leetspeak", "from_leetspeak", "extract_leetspeak", "process_response"}

\* "HOUSE: 1s 4\n", "hOuSe (x) t0\nCUDDY: n0", ""
ConcInputs ==
  { <<"H","O","U","S","E",":"," ","1","s"," ","4","\n">>,
    <<"h","O","u","S","e"," ","(","x",")"," ","t","0","\n","C","U","D","D","Y",":"," ","n","0">>,
    <<>> }

Idle == [pc |-> "idle", op |-> "none", arg |-> <<>>, local |-> <<>>, ret |-> None]

InitConc ==
  /\ InitTranslator(BasicLeet)
  /\ text = <<>>
  /\ op = "init"
  /\ result = <<>>
  /\ method = "none"
  /\ calls = [t \in Threads |-> Idle]
  /\ limiter = None
  /\ client = None

FirstStep(name) ==
  CASE name = "to_leetspeak" -> "encode"
    [] name = "from_leetspeak" -> "reverse_pass"
    [] name = "extract_leetspeak" -> "extract"
    [] name = "process_response" -> "extract"

\* the call of thread t goes on to the step next with the working string
\* value, or returns value when next is "done"
Advance(t, value, next) ==
  /\ calls' = [calls EXCEPT ![t] =
                 [@ EXCEPT !.pc = next, !.local = value,
                           !.ret = IF next = "done" THEN value ELSE @]]
  /\ UNCHANGED <<text, op, result, method>>

Invoke(t, name, arg) ==
  /\ calls[t].pc \in {"idle", "done"}
  /\ calls' = [calls EXCEPT ![t] =
                 [pc |-> FirstStep(name), op |-> name, arg |-> arg,
                  local |-> arg, ret |-> None]]
  /\ UNCHANGED <<limiter, client, table, reverse_table, extended_reverse, character_names,
                 debug, text, op, result, method>>

\* to_leetspeak, lines 44-58: reads self.table
StepEncode(t) ==
  /\ calls[t].pc = "encode"
  /\ Advance(t, to_leetspeak_loop(table, str_lower(calls[t].local), 1), "done")
  /\ UNCHANGED <<limiter, client, table, reverse_table, extended_reverse, character_names, debug>>

\* extract_leetspeak, lines 116-210
StepExtract(t) ==
  /\ calls[t].pc = "extract"
  /\ Advance(t, extract_leetspeak(calls[t].local),
             IF calls[t].op = "extract_leetspeak" THEN "done" ELSE "pre_clean")
  /\ UNCHANGED <<limiter, client, table, reverse_table, extended_reverse, character_names, debug>>

\* process_response, lines 268-272
StepPreClean(t) ==
  /\ calls[t].pc = "pre_clean"
  /\ Advance(t, pre_decode_clean(calls[t].local), "reverse_pass")
  /\ UNCHANGED <<limiter, client, table, reverse_table, extended_reverse, character_names, debug>>

\* from_leetspeak, lines 62-76: the early return, else the first pass, which
\* reads self.reverse_table
StepReversePass(t) ==
  /\ calls[t].pc = "reverse_pass"
  /\ IF calls[t].local = <<>>
       THEN Advance(t, <<>>,
              IF calls[t].op = "from_leetspeak" THEN "done" ELSE "normalize")
       ELSE Advance(t, reverse_pass(reverse_table, calls[t].local),
                    "extended_pass")
  /\ UNCHANGED <<limiter, client, table, reverse_table, extended_reverse, character_names, debug>>

\* from_leetspeak, lines 78-85: reads self.extended_reverse
StepExtendedPass(t) ==
  /\ calls[t].pc = "extended_pass"
  /\ Advance(t, replace_pass(extended_reverse, calls[t].local), "numeric_pass")
  /\ UNCHANGED <<limiter, client, table, reverse_table, extended_reverse, character_names, debug>>

\* from_leetspeak, lines 87-108
StepNumericPass(t) ==
  /\ calls[t].pc = "numeric_pass"
  /\ Advance(t, numeric_pass(numeric_fixes, calls[t].local),
             IF calls[t].op = "from_leetspeak" THEN "done" ELSE "normalize")
  /\ UNCHANGED <<limiter, client, table, reverse_table, extended_reverse, character_names, debug>>

\* a normalize_character_names that uses up the list of names it walks
StepNormalizeConsuming(t) ==
  /\ calls[t].pc = "normalize"
  /\ Advance(t, normalize_names_loop(character_names, calls[t].local),
             "post_clean")
  /\ character_names' = <<>>
  /\ UNCHANGED <<limiter, client, table, reverse_table, extended_reverse, debug>>

\* normalize_character_names, lines 240-247: reads self.character_names
StepNormalize(t) ==
  /\ calls[t].pc = "normalize"
  /\ Advance(t, normalize_names_loop(character_names, calls[t].local),
             "post_clean")
  /\ UNCHANGED <<limiter, client, table, reverse_table, extended_reverse, character_names, debug>>

\* process_response, lines 280-289
StepPostClean(t) ==
  /\ calls[t].pc = "post_clean"
  /\ Advance(t, strip_markers(calls[t].local), "done")
  /\ UNCHANGED <<limiter, client, table, reverse_table, extended_reverse, character_names, debug>>

\* set_debug, lines 38-40
set_debug(value) ==
  /\ debug' = value
  /\ UNCHANGED <<limiter, client, table, reverse_table, extended_reverse, character_names,
                 text, op, result, method, calls>>

Step(t) ==
  \/ StepEncode(t)
  \/ StepExtract(t)
  \/ StepPreClean(t)
  \/ StepReversePass(t)
  \/ StepExtendedPass(t)
  \/ StepNumericPass(t)
  \/ StepNormalize(t)
  \/ StepPostClean(t)

NextConc ==
  \/ \E t \in Threads, name \in Methods, arg \in ConcInputs : Invoke(t, name, arg)
  \/ \E t \in Threads : Step(t)
  \/ \E value \in BOOLEAN : set_debug(value)

SpecConc == InitConc /\ [][NextConc]_vars

-----------------------------------------------------------------------------
(* src/api_client.py: the RateLimiter of a GeminiClient that one caller     *)
(* uses.  A time or a duration is a number of seconds, kept as the fraction *)
(* num/den in lowest terms, so that 60 / rpm is the quotient the code       *)
(* computes (up to the rounding of a float).  The clock is the one          *)
(* time.time() reads; it does not go back, and time passes between any two  *)
(* statements.  client holds the clock, the caller's position in            *)
(* generate_content and wait_if_needed, the locals of the call, and for     *)
(* every call so far the time it was made, whether it slept, the value it   *)
(* wrote to last_request_time and the time its request was posted.          *)

RECURSIVE GCD(_, _)
GCD(a, b) == IF b = 0 THEN a ELSE GCD(b, a % b)

\* what a division by zero raises
ZeroDivisionError == <<"ZeroDivisionError">>

Abs(n) == IF n < 0 THEN -n ELSE n

\* n / d: the fraction in lowest terms with a positive denominator, and
\* ZeroDivisionError when d is 0
Ratio(n, d) ==
  IF d = 0 THEN ZeroDivisionError
  ELSE LET g == GCD(Abs(n), Abs(d))
           sign == IF d < 0 THEN -1 ELSE 1
       IN  [num |-> sign * (n \div g), den |-> sign * (d \div g)]

Plus(a, b) == Ratio(a.num * b.den + b.num * a.den, a.den * b.den)

Minus(a, b) == Ratio(a.num * b.den - b.num * a.den, a.den * b.den)

\* a < b
Below(a, b) == a.num * b.den < b.num * a.den

SecondsPerMinute == 60

\* the rate limit when the configuration has none for the model
DefaultRpm == 5

MaxRequests == 3

MaxClockTicks == 3

\* rate_limits.get(model): no entry, or an entry with its rpm
RateLimits == {<<>>, <<7>>, <<30>>, <<120>>}

\* what time.time() reads when the RateLimiter is constructed
StartTimes == {Ratio(100, 1), Ratio(201, 2)}

translator_vars ==
  <<table, reverse_table, extended_reverse, character_names, debug,
    text, op, result, method, calls>>

\* RateLimiter.__init__: line 11 raises ZeroDivisionError when rpm is 0, and
\* no RateLimiter is made
RateLimiter(rpm, dbg) ==
  IF rpm = 0 THEN ZeroDivisionError
  ELSE [rpm |-> rpm,
        last_request_time |-> Ratio(0, 1),
        min_interval |-> Ratio(SecondsPerMinute, rpm),
        debug |-> dbg]

\* GeminiClient.__init__, lines 57-63
InitLimiter ==
  /\ InitTranslator(BasicLeet)
  /\ text = <<>>
  /\ op = "init"
  /\ result = <<>>
  /\ method = "none"
  /\ calls = <<>>
  /\ \E entry \in RateLimits : \E dbg \in BOOLEAN :
       limiter = IF entry # <<>> THEN RateLimiter(entry[1], dbg)
                 ELSE RateLimiter(DefaultRpm, dbg)
  /\ \E t \in StartTimes :
       client = [pc |-> "idle", now |-> t, ticks |-> 0,
                 elapsed |-> Ratio(0, 1), wait_time |-> Ratio(0, 1),
                 wake |-> Ratio(0, 1),
                 made |-> <<>>, slept |-> <<>>, stamps |-> <<>>,
                 sends |-> <<>>]

\* the times that pass in one step of the clock: a second, or half of
\* min_interval
TickSteps == {Ratio(1, 1), Ratio(SecondsPerMinute, 2 * limiter.rpm)}

\* time passes
Tick ==
  /\ client.ticks < MaxClockTicks
  /\ \E d \in TickSteps :
       client' = [client EXCEPT !.now = Plus(@, d), !.ticks = @ + 1]
  /\ UNCHANGED <<limiter, translator_vars>>

\* generate_content, lines 74-77: the call, up to the call of wait_if_needed
GenerateContent ==
  /\ client.pc = "idle"
  /\ Len(client.made) < MaxRequests
  /\ client' = [client EXCEPT !.pc = "elapsed",
                              !.made = Append(@, client.now)]
  /\ UNCHANGED <<limiter, translator_vars>>

\* wait_if_needed, lines 20-22
ReadElapsed ==
  /\ client.pc = "elapsed"
  /\ LET elapsed == Minus(client.now, limiter.last_request_time)
         wait    == Below(elapsed, limiter.min_interval)
     IN  client' =
           [client EXCEPT
              !.elapsed = elapsed,
              !.wait_time = IF wait THEN Minus(limiter.min_interval, elapsed)
                            ELSE @,
              !.slept = Append(@, wait),
              !.pc = IF wait THEN "sleep" ELSE "stamp"]
  /\ UNCHANGED <<limiter, translator_vars>>

\* wait_if_needed, line 25: time.sleep(wait_time) begins
Sleep ==
  /\ client.pc = "sleep"
  /\ client' = [client EXCEPT !.pc = "sleeping",
                              !.wake = Plus(client.now, client.wait_time)]
  /\ UNCHANGED <<limiter, translator_vars>>

\* time.sleep returns: at once when wait_time has passed on the clock, and
\* otherwise when the clock has been put forward to the end of the wait
Wake ==
  /\ client.pc = "sleeping"
  /\ client' = [client EXCEPT
                  !.pc = "stamp",
                  !.now = IF Below(@, client.wake) THEN client.wake ELSE @]
  /\ UNCHANGED <<limiter, translator_vars>>

\* wait_if_needed, line 26
Stamp ==
  /\ client.pc = "stamp"
  /\ limiter' = [limiter EXCEPT !.last_request_time = client.now]
  /\ client' = [client EXCEPT !.pc = "post",
                              !.stamps = Append(@, client.now)]
  /\ UNCHANGED translator_vars

\* generate_content, lines 79-92: requests.post sends the request; the
\* response arrives while the clock goes on
Post ==
  /\ client.pc = "post"
  /\ client' = [client EXCEPT !.pc = "idle",
                              !.sends = Append(@, client.now)]
  /\ UNCHANGED <<limiter, translator_vars>>

\* RateLimiter.set_debug, called by GeminiClient.set_debug between queries
RateLimiter_set_debug ==
  /\ client.pc = "idle"
  /\ \E value \in BOOLEAN : limiter' = [limiter EXCEPT !.debug = value]
  /\ UNCHANGED <<client, translator_vars>>

NextLimiter ==
  \/ Tick
  \/ GenerateContent
  \/ ReadElapsed
  \/ Sleep
  \/ Wake
  \/ Stamp
  \/ Post
  \/ RateLimiter_set_debug

SpecLimiter == InitLimiter /\ [][NextLimiter]_vars

-----------------------------------------------------------------------------
(* Properties *)

Extracted == op = "extract_leetspeak"

Processed == op = "process_response"

\* C1: process_response of the raw response "HOUSE: The answer is 4pple and
\* 0range. [SCENE END]" returns exactly "The answer is apple and orange."
C1_PipelineScenario ==
  (Processed /\ text = PipelineScenario)
     => result = <<"T","h","e"," ","a","n","s","w","e","r"," ","i","s"," ","a","p","p","l","e"," ","a","n","d"," ","o","r","a","n","g","e",".">>

\* the strategies in their fixed order, applied to the fence-stripped response
StrategyOutputs(raw) ==
  LET response == strip_code_fences(raw)
  IN  << house_strategy(response), bullet_strategy(response),
         code_block_strategy(response), paragraph_strategy(response),
         full_response_strategy(response) >>

\* a strategy yields when it gives a non-empty result; the last one, the
\* fallback, gives the whole response whatever it is
Yields(outputs, k) == k = 5 \/ (outputs[k] # None /\ outputs[k] # <<>>)

FirstToYield(outputs, k) ==
  Yields(outputs, k) /\ \A j \in 1..(k - 1) : ~Yields(outputs, j)

StrategyOf(m) ==
  CASE m \in {"house_dialogue", "bullets_in_house_dialogue"} -> 1
    [] m = "bullet_points" -> 2
    [] m = "code_blocks" -> 3
    [] m = "leet_paragraphs" -> 4
    [] m = "full_response" -> 5

\* C2 (as stated): for every response, extract_leetspeak returns the output
\* of the first strategy, in the fixed order, that yields a non-empty result
C2_Original ==
  Extracted =>
    \A k \in 1..5 :
      FirstToYield(StrategyOutputs(text), k)
        => result = StrategyOutputs(text)[k]

\* C2 (amended): for every response that is not empty or whitespace-only,
\* extract_leetspeak returns the output of the first strategy, in the fixed
\* order, that yields a non-empty result: strategy k returns only if every
\* strategy before it yielded nothing, and the first strategy to yield gives
\* the return value
C2_Cascade ==
  (Extracted /\ ~is_empty_response(text)) =>
    LET outputs == StrategyOutputs(text)
    IN  /\ result = outputs[StrategyOf(method)]
        /\ FirstToYield(outputs, StrategyOf(method))
        /\ \A k \in 1..5 : FirstToYield(outputs, k) => result = outputs[k]

\* a response whose bullet points are returned although its paragraphs, a
\* later strategy, would have given another text
C2_Witness ==
  /\ Extracted
  /\ method = "bullet_points"
  /\ StrategyOutputs(text)[1] = None
  /\ StrategyOutputs(text)[4] # None
  /\ StrategyOutputs(text)[4] # result

\* C3: extract_leetspeak and process_response return a string, possibly
\* empty, for every input, malformed or not: never None, which re.sub and
\* the str methods of process_response would raise on
C3_Total ==
  (Extracted \/ Processed) => (result # None /\ IsString(result))

\* an unterminated bullet followed by an unbalanced fence: the bullet
\* extraction finds a marker and no body, and the response is returned
C3_Witness ==
  /\ Extracted
  /\ text = <<"*", " ">> \o Fence
  /\ _extract_full_bullet_content(strip_code_fences(text)) = None
  /\ result = <<"*", " ">>

RoundTripped == op = "round_trip"

\* s is built only from characters that are not keys of the table
NoTableKeys(s) == \A i \in DOMAIN s : ~HasKey(table, s[i])

\* w is a whole word of s at position i: letters, digits and _ on neither side
WholeWordAt(s, i, w) ==
  /\ MatchAt(s, i, w)
  /\ i = 1 \/ ~IsWord(s[i - 1])
  /\ i + Len(w) > Len(s) \/ ~IsWord(s[i + Len(w)])

\* s contains no value of the table, no key of the extended reverse table
\* and no whole word that is a key of numeric_fixes
NothingToDecode(s) ==
  /\ \A j \in DOMAIN table :
       \A i \in 1..(Len(s) + 1) :
         ~MatchAt(s, i, table[j][2])
  /\ \A j \in DOMAIN extended_reverse :
       \A i \in DOMAIN s : s[i] # extended_reverse[j][1]
  /\ \A j \in DOMAIN numeric_fixes :
       \A i \in DOMAIN s : ~WholeWordAt(s, i, numeric_fixes[j][1])

\* C4 (as stated): for every s built only from characters that are not keys
\* of the table, from_leetspeak(to_leetspeak(s)) = s
C4_Original == (RoundTripped /\ NoTableKeys(text)) => result = text

\* C4 (amended): for every s built only from characters that are not keys of
\* the table and that lower-casing leaves unchanged, and that contains no
\* value of the table, no key of the extended reverse table and no whole
\* word that is a key of numeric_fixes, from_leetspeak(to_leetspeak(s)) = s
C4_RoundTrip ==
  (/\ RoundTripped
   /\ NoTableKeys(text)
   /\ str_lower(text) = text
   /\ NothingToDecode(text))
     => result = text

\* a text of several characters that the round trip leaves as it is
C4_Witness ==
  /\ RoundTripped
  /\ table = BasicLeet
  /\ Len(text) >= 3
  /\ NoTableKeys(text)
  /\ str_lower(text) = text
  /\ NothingToDecode(text)
  /\ \E i \in DOMAIN text : text[i] = "z"

\* the response is the label "HOUSE:" and a dialogue with leetspeak in it
\* that names no speaker and has no code fence
LoneHouseLabel(s) ==
  /\ MatchAt(s, 1, <<"H","O","U","S","E",":">>)
  /\ contains_leetspeak(SubSeq(s, 7, Len(s)))
  /\ \A i \in 7..Len(s) :
       /\ s[i] # Backtick
       /\ \A n \in NextSpeakers \cup {<<"H","O","U","S","E">>} : ~MatchAtCI(s, i, n)

\* C5: the speaker label starts a span that runs until the next recognized
\* speaker label or the end of the text, whether or not the dialogue has a
\* blank line or ends with a newline
C5_SpanToEnd ==
  (Extracted /\ LoneHouseLabel(text)) =>
    LET spans == house_matches(strip_code_fences(text), 1)
    IN  /\ Len(spans) = 1
        /\ str_strip(spans[1]) = str_strip(SubSeq(text, 7, Len(text)))

\* C6: for the input "HOUSE: * f00 \n* b4r" extract_leetspeak returns the
\* two bullet bodies joined by a blank line, "f00\n\nb4r"
C6_BulletScenario ==
  (Extracted /\ text = BulletScenario)
     => result = <<"f","0","0","\n","\n","b","4","r">>

\* the fenced bodies of the raw response that pass contains_leetspeak
FencedLeet(raw) == SelectLeet(code_blocks(raw, 1))

\* C7: for a response with no speaker dialogue and no bullet marker and a
\* fenced code block that passes contains_leetspeak, extract_leetspeak
\* returns exactly the fenced bodies that pass it, joined by a blank line
C7_CodeBlocks ==
  (/\ Extracted
   /\ \A i \in DOMAIN text :
        text[i] \notin BulletChars /\ ~MatchAtCI(text, i, <<"H","O","U","S","E">>)
   /\ FencedLeet(text) # <<>>)
     => result = str_join(<<"\n","\n">>, FencedLeet(text))

\* C8 (as stated): a response that is empty or whitespace-only after the
\* fence delimiters are removed gives the empty string
C8_Original ==
  (Extracted /\ Len(str_strip(strip_code_fences(text))) = 0)
     => result = <<>>

\* C8 (amended): extract_leetspeak tests for emptiness first and strips the
\* fence delimiters afterwards: an empty or whitespace-only response gives
\* the empty string, and a response that is whitespace-only only once its
\* fences are removed gives that whitespace, the fence-stripped response
C8_EmptyFirst ==
  Extracted =>
    /\ Len(str_strip(text)) = 0 => result = <<>>
    /\ (Len(str_strip(text)) # 0
          /\ Len(str_strip(strip_code_fences(text))) = 0)
         => result = strip_code_fences(text)

\* a response made only of fences and newlines: the newline is returned
C8_Witness ==
  /\ Extracted
  /\ text = Fence \o <<"\n">> \o Fence
  /\ result = <<"\n">>

\* C9: the post-decode cleaning phase is idempotent: cleaning its own output
\* changes nothing
C9_Idempotent ==
  op = "post_decode_clean" => post_decode_clean(Self, result) = result

\* the Translator as __init__ leaves it
Constructed ==
  [table |-> BasicLeet, reverse_table |-> reverse_of(BasicLeet),
   extended_reverse |-> ExtendedReverse,
   character_names |-> CharacterNames, debug |-> FALSE]

\* what the method returns when it runs alone
Alone(name, arg) ==
  CASE name = "to_leetspeak" -> to_leetspeak(Constructed, arg)
    [] name = "from_leetspeak" -> from_leetspeak(Constructed, arg)
    [] name = "extract_leetspeak" -> extract_leetspeak(arg)
    [] name = "process_response" -> process_response(Constructed, arg)

\* C10: no step of a call writes table, reverse_table, extended_reverse,
\* character_names or debug (only set_debug, which is no step of a call,
\* changes debug), and however the calls and set_debug interleave, a call
\* that returns gives the string the method gives when it runs alone
C10_Pure ==
  [][ /\ fields' = fields
      /\ calls' # calls => debug' = debug
      /\ \A t \in Threads :
           calls'[t].pc = "done"
             => calls'[t].ret = Alone(calls'[t].op, calls'[t].arg)
    ]_vars

\* process_response has returned in one thread while the other is in the
\* middle of its own process_response, debug having been switched on
C10_Witness ==
  /\ calls["t1"].pc = "done"
  /\ calls["t1"].op = "process_response"
  /\ calls["t1"].arg # <<>>
  /\ calls["t2"].op = "process_response"
  /\ calls["t2"].pc = "normalize"
  /\ debug

-----------------------------------------------------------------------------
(* to_leetspeak as a per-character map                                      *)

\* what one character c of the input contributes to the output
EncodedChar(c) ==
  IF \E j \in DOMAIN table : table[j][1] = Lower(c)
    THEN Lookup(table, Lower(c))
    ELSE <<Lower(c)>>

\* the concatenation of the strings of a sequence, in order
RECURSIVE Concat(_)
Concat(ss) == IF ss = <<>> THEN <<>> ELSE Head(ss) \o Concat(Tail(ss))

Encoded == op = "to_leetspeak"

\* C11: to_leetspeak returns a string, the concatenation over the characters
\* c of the lower-cased input, in order, of table[c] when c is a key of the
\* table and of c otherwise; its output for s is its output for s.lower().
C11_PerCharacter ==
  Encoded =>
    /\ IsString(result)
    /\ result = Concat([i \in DOMAIN text |-> EncodedChar(text[i])])
    /\ result = to_leetspeak(Self, str_lower(text))

\* an upper-case letter, a key of the table and a character that is no key
\* have been encoded
C11_Witness ==
  /\ Encoded
  /\ text = <<"B", "i", "x">>
  /\ table = BasicLeet
  /\ result = <<"b", "1", "x">>

-----------------------------------------------------------------------------
(* _extract_full_bullet_content: every bullet marker is a boundary          *)

BulletsExtracted == op = "_extract_full_bullet_content"

\* the character at position j of s is the bullet of a bullet marker: it
\* is one of the bullet characters, only whitespace lies between the start
\* of its line and it, and a whitespace character follows it
BulletOfMarker(s, j) ==
  /\ j < Len(s)
  /\ s[j] \in BulletChars
  /\ IsSpace(s[j + 1])
  /\ \E i \in 1..j :
       /\ i = 1 \/ s[i - 1] = "\n"
       /\ \A k \in i..(j - 1) : IsSpace(s[k])

HasMarker(s) == \E j \in DOMAIN s : BulletOfMarker(s, j)

\* the positions of the text that lie in the n-th body the helper cuts:
\* from the end of the n-th marker it found to the start of the next one
BodySpan(n) ==
  LET markers == bullet_markers(text, 1)
  IN  { k \in DOMAIN text :
          /\ k >= markers[n][2]
          /\ n < Len(markers) => k < markers[n + 1][1] }

\* the n-th body holds a bullet marker of the text and text after it
MarkerInBody(n) ==
  \E j \in BodySpan(n) :
    /\ BulletOfMarker(text, j)
    /\ \E k \in BodySpan(n) : k > j /\ ~IsSpace(text[k])

\* C12: the result is None when the text has no bullet marker, and no body
\* that is returned contains a line that starts with a bullet marker of the
\* text, also when the body of a bullet is empty.
C12_MarkersAreBoundaries ==
  BulletsExtracted =>
    /\ ~HasMarker(text) => result = None
    /\ \A n \in DOMAIN bullet_markers(text, 1) : ~MarkerInBody(n)

-----------------------------------------------------------------------------
(* from_leetspeak leaves no leet character behind                           *)

Decoded == op \in {"from_leetspeak", "round_trip"}

\* the keys of the extended reverse table that are no digits
LeetLetters == {"_", "O", "I", "E", "A", "T", "S", "G", "B", "Z"}

\* the digit strings the numeric pass writes
NumeralsWritten == {numeric_fixes[k][2] : k \in DOMAIN numeric_fixes}

\* the characters i..j of s are digits with no digit on either side
MaximalDigitRun(s, i, j) ==
  /\ \A k \in i..j : IsDigit(s[k])
  /\ i = 1 \/ ~IsDigit(s[i - 1])
  /\ j = Len(s) \/ ~IsDigit(s[j + 1])

\* C13: the output of from_leetspeak contains no underscore and none of the
\* letters O I E A T S G B Z, and every digit of it lies in a digit string
\* that the numeric pass writes in the place of a whole word.
C13_NoLeetSurvives ==
  Decoded =>
    /\ \A i \in DOMAIN result : result[i] \notin LeetLetters
    /\ \A i \in DOMAIN result : \A j \in i..Len(result) :
         MaximalDigitRun(result, i, j) =>
           /\ SubSeq(result, i, j) \in NumeralsWritten
           /\ i = 1 \/ ~IsWord(result[i - 1])
           /\ j = Len(result) \/ ~IsWord(result[j + 1])

\* an upper-case leet letter and a digit have been decoded into a word that
\* the numeric pass rewrites: "I4" becomes "ia" and then "14"
C13_Witness ==
  /\ op = "from_leetspeak"
  /\ text = <<"I", "4">>
  /\ result = <<"1", "4">>

-----------------------------------------------------------------------------
(* The RateLimiter spaces the requests                                      *)

\* every entry of the sequence of times ts is at least d after the one
\* before it
Spaced(ts, d) ==
  \A i \in 1..(Len(ts) - 1) : ~Below(Minus(ts[i + 1], ts[i]), d)

\* the values written to last_request_time are at least min_interval apart
StampsSpaced == Spaced(client.stamps, limiter.min_interval)

\* the requests are sent at least min_interval apart
SendsSpaced == Spaced(client.sends, limiter.min_interval)

\* a call made at least min_interval after the value the call before it
\* wrote to last_request_time has not slept
LateCallsDoNotSleep ==
  \A k \in DOMAIN client.slept :
    (/\ k > 1
     /\ ~Below(Minus(client.made[k], client.stamps[k - 1]),
               limiter.min_interval))
      => ~client.slept[k]

\* C14: the values successively written to last_request_time are at least
\* min_interval = 60/rpm apart, generate_content never sends two requests
\* less than min_interval apart, and a call made at least min_interval after
\* the one before it does not sleep.
C14_RequestsSpaced ==
  /\ StampsSpaced
  /\ SendsSpaced
  /\ LateCallsDoNotSleep

====
